---- MODULE Spec2Model ----
(***************************************************************************)
(* State-machine model of the WebSocket connector:                         *)
(*   WebSocketConnectorBase   (dist/esm/WebSocketConnectorBase.js)         *)
(*   NodeWebSocketConnector   (unnamed/part_005, the compiled connector)   *)
(*   MockWebSocketConnector   (src/MockWebSocketConnector.ts)              *)
(*                                                                         *)
(* JavaScript runs one callback at a time.  Every action below is one      *)
(* synchronous run: a caller's call up to its first suspension, one        *)
(* continuation taken from the microtask queue mq, or one timer / socket   *)
(* callback.  Timer and socket callbacks run only when mq is empty.        *)
(***************************************************************************)
EXTENDS Integers, Sequences, FiniteSets, TLC

\* ---- bounds of the exploration ----
MaxHandles == 2
MaxTasks == 2
MaxSockets == 2
MaxRetryTimers == 3
MaxForceTimers == 2
MaxMsgs == 2

\* ---- program constants ----
MaxAttemptCap == 10
BaseDelayMs == 1000
MaxDelayMs == 30000

Kinds == {"mock", "node"}
AttemptOptions == {0, 1, 2}

DCONT == 0
DISP == MaxTasks + 1
Tasks == 1..MaxTasks
Handles == 1..MaxHandles
Socks == 1..MaxSockets

VARIABLES
  kind,              \* which subclass: "mock" or "node"
  reconnectAttempts, \* options.reconnectAttempts ?? 0
  state,             \* _state$.value
  wasDisposed,       \* AsyncDisposableBase.wasDisposed of the connector
  handles,           \* every handle connect() returned: "unused" | "live" | "disposed"
  vcs,               \* _virtualConnections
  idleTimer,         \* _idleTimeoutId !== undefined
  currentAttempt,    \* _currentAttempt
  retryTimers,       \* number of pending backoff setTimeout callbacks
  lastDelay,         \* delay given to the most recent backoff setTimeout (0: none yet)
  disconnecting,     \* _disconnecting: "none" | "poll" | "event" | "resolved"
  dq,                \* tasks suspended on `await d` in _connect, in arrival order
  socks,             \* sockets that exist or can still raise events
  cur,               \* _webSocket / mockWs (0: undefined)
  forceTimers,       \* pending 5000 ms timers of Node _ensureDisconnect calls already settled
  emitting,          \* socket whose 'close' emit follows its 'error' emit (0: none)
  tasks,             \* in-flight async calls: connect(), send(), backoff retry
  mq,                \* microtask queue
  disp,              \* position of disposeAsync()
  outcome,           \* how the most recently settled caller call ended
  pristine,          \* only connect() calls, all begun before any settled, have happened
  started,           \* connect() calls begun while pristine
  resolved,          \* of those, the ones that returned a handle
  created,           \* transports opened while pristine
  handlerTick,       \* flips each time _handleConnectionFailure runs
  streak,            \* failures handled since the last successful connect or give-up
  gaveUp,            \* the handler gave up on an exhausted budget, no caller call since
  completed,         \* handles whose message stream has completed
  msgDone,           \* the connector's _message$ has completed
  emitted,           \* the last two values emitted on state$
  stateDone,         \* _state$ has completed
  errDone,           \* _error$ has completed
  errTick,           \* flips each time an error is emitted on error$
  inbox,             \* what each handle's message stream has emitted, in order
  delivered,         \* number of messages the transport has delivered
  ignoredUpdate,     \* a call of _updateState has been ignored
  redisposed,        \* the handles on which dispose() has been called again
  liveAtDispose      \* the handles that were live when disposeAsync() was called

vars == <<kind, reconnectAttempts, state, wasDisposed, handles, vcs, idleTimer,
          currentAttempt, retryTimers, lastDelay, disconnecting, dq, socks, cur,
          forceTimers, emitting, tasks, mq, disp, outcome, pristine, started,
          resolved, created, handlerTick, streak, gaveUp, completed, msgDone,
          emitted, stateDone, errDone, errTick, inbox, delivered, ignoredUpdate,
          redisposed, liveAtDispose>>

\* ---------------------------------------------------------------------------
\* helpers
Min(a, b) == IF a < b THEN a ELSE b

\* rs: readyState (-1: slot unused); lis: the connector's listeners are attached;
\* closeT: MockWebSocket.close() timer pending; cl: once('close', cleanup) registered;
\* est: the socket has been open
FreeSock == [rs |-> -1, lis |-> FALSE, closeT |-> FALSE, cl |-> FALSE, est |-> FALSE]
NewSock == [rs |-> 0, lis |-> TRUE, closeT |-> FALSE, cl |-> FALSE, est |-> FALSE]
FreeTask == [type |-> "free", pc |-> "none", r |-> "none", sock |-> 0]

\* a closed socket nobody references can raise nothing any more
Collect(ss, c) ==
  [s \in Socks |-> IF s # c /\ ss[s].rs = 3 /\ ~ss[s].closeT THEN FreeSock ELSE ss[s]]

FreeSlots(ss) == {s \in Socks : ss[s].rs = -1}
LowestOf(S) == CHOOSE x \in S : \A y \in S : x <= y
FreeTasks == {t \in Tasks : tasks[t].type = "free"}
UnusedHandles == {h \in Handles : handles[h] = "unused"}
ConnectsInFlight == {t \in Tasks : tasks[t].type = "connect"}

Quiet == emitting = 0 /\ disp # "cascade"
Macro == Quiet /\ mq = <<>>

\* an _updateState without its guard
UpdateStateUnguarded(st, v) == v

\* WebSocketConnectorBase._updateState
UpdateState(st, v) == IF st \in {"Disposing", "Disposed"} THEN st ELSE v

\* BehaviorSubject.next on _state$: what the stream has emitted afterwards
NextValue(v) == IF stateDone THEN emitted ELSE <<emitted[2], v>>

\* this._state$.next(v)
SetState(v) == state' = v /\ emitted' = NextValue(v) /\ UNCHANGED ignoredUpdate

\* this._updateState(v), called by the transport's listeners
RequestState(v) ==
  /\ state' = UpdateState(state, v)
  /\ emitted' = IF state \in {"Disposing", "Disposed"} THEN emitted ELSE NextValue(v)
  /\ ignoredUpdate' = (ignoredUpdate \/ state \in {"Disposing", "Disposed"})

\* an _emitError that also pushes the error (item 0) into the message
\* stream of every virtual connection
EmitErrorIntoMessages ==
  [tick |-> IF errDone THEN errTick ELSE 1 - errTick,
   inbox |-> [h \in Handles |-> IF handles[h] = "live" THEN Append(inbox[h], 0)
                                ELSE inbox[h]]]

\* _emitError: this._error$.next(error)
EmitError ==
  [tick |-> IF errDone THEN errTick ELSE 1 - errTick, inbox |-> inbox]

\* _emitMessage: this._message$.next(m), forwarded by the subscription of
\* every virtual connection that is neither disposed nor completed
EmitMessage(m) ==
  [h \in Handles |-> IF ~msgDone /\ handles[h] = "live" /\ h \notin completed
                     THEN Append(inbox[h], m)
                     ELSE inbox[h]]

\* a targetState that is true in every state
TargetStateAlways(st) == TRUE

\* WebSocketConnectorBase.targetState
TargetState(st) == st \in {"Connecting", "Reconnecting", "Connected"}

\* the delay expression without its Math.min(..., 30000)
BackoffDelayUncapped(n) == BaseDelayMs * 2^(n - 1)

\* the delay expression of _handleConnectionFailure
BackoffDelay(n) == Min(BaseDelayMs * 2^(n - 1), MaxDelayMs)

MaxAttempts == Min(reconnectAttempts, MaxAttemptCap)

\* _handleConnectionFailure without `this._virtualConnections.size > 0`
HandleConnectionFailureAnyCount(c) ==
  IF MaxAttempts > 0 /\ c.attempt < MaxAttempts
  THEN [state |-> "Reconnecting", attempt |-> c.attempt + 1,
        timers |-> c.timers + 1, delay |-> BackoffDelay(c.attempt + 1)]
  ELSE [state |-> "Disconnected", attempt |-> 0,
        timers |-> c.timers, delay |-> c.delay]

\* WebSocketConnectorBase._handleConnectionFailure, on the fields it touches
HandleConnectionFailure(c) ==
  IF MaxAttempts > 0 /\ c.attempt < MaxAttempts /\ vcs # {}
  THEN [state |-> "Reconnecting", attempt |-> c.attempt + 1,
        timers |-> c.timers + 1, delay |-> BackoffDelay(c.attempt + 1)]
  ELSE [state |-> "Disconnected", attempt |-> 0,
        timers |-> c.timers, delay |-> c.delay]

Core == [state |-> state, attempt |-> currentAttempt,
         timers |-> retryTimers, delay |-> lastDelay]

SetCore(c) ==
  /\ SetState(c.state)
  /\ currentAttempt' = c.attempt
  /\ retryTimers' = c.timers
  /\ lastDelay' = c.delay

\* the ghost counters stop once anything but a concurrent connect() batch happened
Spoil == /\ pristine' = FALSE
         /\ started' = 0
         /\ resolved' = 0
         /\ created' = 0

\* the fields of a connector right after its constructor
Fresh ==
  /\ state = "Disconnected"
  /\ wasDisposed = FALSE
  /\ handles = [h \in Handles |-> "unused"]
  /\ vcs = {}
  /\ idleTimer = FALSE
  /\ currentAttempt = 0
  /\ retryTimers = 0
  /\ lastDelay = 0
  /\ disconnecting = "none"
  /\ dq = <<>>
  /\ socks = [s \in Socks |-> FreeSock]
  /\ cur = 0
  /\ forceTimers = 0
  /\ emitting = 0
  /\ tasks = [t \in Tasks |-> FreeTask]
  /\ mq = <<>>
  /\ disp = "none"
  /\ outcome = "none"
  /\ pristine = TRUE
  /\ started = 0
  /\ resolved = 0
  /\ created = 0
  /\ handlerTick = 0
  /\ streak = 0
  /\ gaveUp = FALSE
  /\ completed = {}
  /\ msgDone = FALSE
  /\ emitted = <<"none", "Disconnected">>
  /\ stateDone = FALSE
  /\ errDone = FALSE
  /\ errTick = 0
  /\ inbox = [h \in Handles |-> <<>>]
  /\ delivered = 0
  /\ liveAtDispose = {}
  /\ ignoredUpdate = FALSE
  /\ redisposed = {}

Init ==
  /\ kind \in Kinds
  /\ reconnectAttempts \in AttemptOptions
  /\ Fresh

cfg == <<kind, reconnectAttempts>>
ghost == <<pristine, started, resolved, created>>
hist == <<handlerTick, streak, gaveUp, errTick, inbox>>
fin == <<stateDone, errDone, liveAtDispose, delivered, redisposed>>
streams == <<completed, msgDone>>

\* one run of _handleConnectionFailure, with the history it leaves
RunHandler ==
  LET c == HandleConnectionFailure(Core) IN
  /\ SetCore(c)
  /\ errTick' = EmitError.tick
  /\ inbox' = EmitError.inbox
  /\ handlerTick' = 1 - handlerTick
  /\ streak' = IF c.state = "Reconnecting" THEN Min(streak + 1, MaxAttemptCap + 1) ELSE 0
  /\ gaveUp' = IF c.state = "Reconnecting" THEN FALSE
               ELSE IF MaxAttempts > 0 /\ vcs # {} THEN TRUE
               ELSE gaveUp

\* bookkeeping of the concurrent-connect batch: sp spoils it
Ghost(sp, dS, dR, dC) ==
  IF sp \/ ~pristine
  THEN Spoil
  ELSE /\ pristine' = TRUE
       /\ started' = started + dS
       /\ resolved' = resolved + dR
       /\ created' = created + dC

\* ---------------------------------------------------------------------------
\* _connectWebSocket of both subclasses: a new socket replaces the current one
CanOpen == FreeSlots(Collect(socks, 0)) # {}

ConnectWebSocket ==
  LET ss == Collect(socks, 0)
      s == LowestOf(FreeSlots(ss))
  IN [socks |-> [ss EXCEPT ![s] = NewSock], cur |-> s, made |-> 1,
      pc |-> "waitOpen", r |-> "none"]

\* _ensureConnection without the CONNECTING branch: a caller that finds the
\* socket still connecting opens another one
EnsureConnectionNoJoin ==
  IF cur # 0 /\ socks[cur].rs = 1
  THEN [socks |-> socks, cur |-> cur, made |-> 0, pc |-> "res", r |-> "Connected"]
  ELSE ConnectWebSocket

\* _ensureConnection without any readyState check
EnsureConnectionAlwaysOpens == ConnectWebSocket

\* an _ensureConnection that keeps waiting on a socket that has closed
EnsureConnectionKeepsClosed ==
  IF cur # 0 /\ socks[cur].rs = 1
  THEN [socks |-> socks, cur |-> cur, made |-> 0, pc |-> "res", r |-> "Connected"]
  ELSE IF cur # 0
  THEN [socks |-> socks, cur |-> cur, made |-> 0,
        pc |-> IF kind = "mock" THEN "poll" ELSE "res",
        r |-> IF kind = "mock" THEN "none" ELSE "Connecting"]
  ELSE ConnectWebSocket

\* _ensureConnection: MockWebSocketConnector polls while the socket is
\* CONNECTING, NodeWebSocketConnector returns Connecting at once
EnsureConnection ==
  IF cur # 0 /\ socks[cur].rs = 1
  THEN [socks |-> socks, cur |-> cur, made |-> 0, pc |-> "res", r |-> "Connected"]
  ELSE IF cur # 0 /\ socks[cur].rs = 0
  THEN [socks |-> socks, cur |-> cur, made |-> 0,
        pc |-> IF kind = "mock" THEN "poll" ELSE "res",
        r |-> IF kind = "mock" THEN "none" ELSE "Connecting"]
  ELSE ConnectWebSocket

NeedsOpen == ~(cur # 0 /\ socks[cur].rs \in {0, 1})

\* _connect from `this.assertIsAlive()` on, run by task t of type ty;
\* q is the microtask queue the run started with
Proceed(t, ty, q, sp, dS) ==
  IF wasDisposed
  THEN /\ tasks' = [tasks EXCEPT ![t] = [type |-> ty, pc |-> "thr", r |-> "DisposedError", sock |-> 0]]
       /\ mq' = Append(q, t)
       /\ Ghost(sp, dS, 0, 0)
       /\ UNCHANGED <<state, emitted, ignoredUpdate, socks, cur>>
  ELSE /\ NeedsOpen => CanOpen
       /\ LET e == EnsureConnection IN
            /\ state' = "Connecting"
            /\ emitted' = IF e.made = 1 /\ kind = "node"
                          THEN IF stateDone THEN emitted ELSE <<"Connecting", "Connecting">>
                          ELSE NextValue("Connecting")
            /\ UNCHANGED ignoredUpdate
            /\ socks' = e.socks
            /\ cur' = e.cur
            /\ tasks' = [tasks EXCEPT ![t] = [type |-> ty, pc |-> e.pc, r |-> e.r, sock |-> e.cur]]
            /\ mq' = IF e.pc = "res" THEN Append(q, t) ELSE q
            /\ Ghost(sp, dS, 0, e.made)

\* a _connect that does not wait for the disconnect in flight
BeginConnectNoWait(t, ty, q, sp, dS) ==
  IF state = "Connected"
  THEN /\ tasks' = [tasks EXCEPT ![t] = [type |-> ty, pc |-> "ret", r |-> "none", sock |-> 0]]
       /\ mq' = Append(q, t)
       /\ Ghost(sp, dS, 0, 0)
       /\ UNCHANGED <<state, emitted, ignoredUpdate, socks, cur, dq>>
  ELSE /\ Proceed(t, ty, q, sp, dS)
       /\ UNCHANGED dq

\* _connect from its first line
BeginConnect(t, ty, q, sp, dS) ==
  IF state = "Connected"
  THEN /\ tasks' = [tasks EXCEPT ![t] = [type |-> ty, pc |-> "ret", r |-> "none", sock |-> 0]]
       /\ mq' = Append(q, t)
       /\ Ghost(sp, dS, 0, 0)
       /\ UNCHANGED <<state, emitted, ignoredUpdate, socks, cur, dq>>
  ELSE IF disconnecting \in {"poll", "event"}
  THEN /\ tasks' = [tasks EXCEPT ![t] = [type |-> ty, pc |-> "waitD", r |-> "none", sock |-> 0]]
       /\ dq' = Append(dq, t)
       /\ Ghost(sp, dS, 0, 0)
       /\ UNCHANGED <<state, emitted, ignoredUpdate, socks, cur, mq>>
  ELSE IF disconnecting = "resolved"
  THEN /\ tasks' = [tasks EXCEPT ![t] = [type |-> ty, pc |-> "proceed", r |-> "none", sock |-> 0]]
       /\ mq' = Append(q, t)
       /\ Ghost(sp, dS, 0, 0)
       /\ UNCHANGED <<state, emitted, ignoredUpdate, socks, cur, dq>>
  ELSE /\ Proceed(t, ty, q, sp, dS)
       /\ UNCHANGED dq

\* _sendMessage of both subclasses
SendMessage == IF cur # 0 /\ socks[cur].rs = 1 THEN "sent" ELSE "SendError"

\* a _send without its second check of the state
SendAfterConnectUnchecked == SendMessage

\* _send after `await this._connect()`: throw 'WebSocket failed to connect.'
\* unless the state is Connected, else _sendMessage
SendAfterConnect == IF state # "Connected" THEN "NotConnected" ELSE SendMessage

\* ---------------------------------------------------------------------------
\* caller calls

\* an assertIsAlive() that never throws
AssertIsAliveSkipped == FALSE

\* this.assertIsAlive() throws: dispose() or disposeAsync() has been called
AssertIsAliveThrows == wasDisposed

\* WebSocketConnectorBase.connect, up to its first suspension
Connect ==
  /\ Quiet
  /\ IF AssertIsAliveThrows
     THEN /\ outcome' = "DisposedError"
          /\ UNCHANGED <<cfg, fin, state, emitted, ignoredUpdate, wasDisposed, handles, vcs, idleTimer, currentAttempt,
                         retryTimers, lastDelay, disconnecting, dq, socks, cur, forceTimers,
                         emitting, tasks, mq, disp, ghost, hist, streams>>
     ELSE /\ Cardinality(UnusedHandles) > Cardinality(ConnectsInFlight)
          /\ idleTimer' = FALSE
          /\ gaveUp' = FALSE
          /\ IF state = "Connected"
             THEN LET h == LowestOf(UnusedHandles) IN
                  /\ handles' = [handles EXCEPT ![h] = "live"]
                  /\ vcs' = vcs \cup {h}
                  /\ completed' = IF msgDone THEN completed \cup {h} ELSE completed
                  /\ outcome' = "handle"
                  /\ Ghost(resolved > 0, 1, 1, 0)
                  /\ UNCHANGED <<state, emitted, ignoredUpdate, socks, cur, dq, tasks, mq>>
             ELSE /\ FreeTasks # {}
                  /\ BeginConnect(LowestOf(FreeTasks), "connect", mq, resolved > 0, 1)
                  /\ UNCHANGED <<handles, vcs, outcome, completed>>
          /\ UNCHANGED <<cfg, fin, wasDisposed, currentAttempt, retryTimers, lastDelay,
                         disconnecting, forceTimers, emitting, disp, handlerTick, streak,
                         errTick, inbox, msgDone>>

\* a handle whose assertIsAlive() never throws
VcAssertIsAliveSkipped(h) == FALSE

\* this.assertIsAlive() of VirtualWebSocketConnection.send throws: the handle
\* has been disposed
VcAssertIsAliveThrows(h) == handles[h] = "disposed"

\* VirtualWebSocketConnection.send -> WebSocketConnectorBase._send
Send(h) ==
  /\ Quiet
  /\ handles[h] # "unused"
  /\ IF VcAssertIsAliveThrows(h) \/ wasDisposed
     THEN /\ outcome' = "DisposedError"
          /\ Spoil
          /\ UNCHANGED <<state, emitted, ignoredUpdate, socks, cur, dq, tasks, mq, gaveUp>>
     ELSE IF state = "Connected"
     THEN /\ outcome' = SendMessage
          /\ Spoil
          /\ gaveUp' = FALSE
          /\ UNCHANGED <<state, emitted, ignoredUpdate, socks, cur, dq, tasks, mq>>
     ELSE /\ FreeTasks # {}
          /\ BeginConnect(LowestOf(FreeTasks), "send", mq, TRUE, 0)
          /\ gaveUp' = FALSE
          /\ UNCHANGED outcome
  /\ UNCHANGED <<cfg, fin, wasDisposed, handles, vcs, idleTimer, currentAttempt, retryTimers,
                 lastDelay, disconnecting, forceTimers, emitting, disp, handlerTick,
                 streak, errTick, inbox, streams>>

\* _ensureDisconnect: what it does before it suspends
\* mock: close() and poll; node: once('close', cleanup), close(1000), 5000 ms timer
NeedsClose == cur # 0 /\ socks[cur].rs # 3

EnsureDisconnect ==
  IF ~NeedsClose
  THEN [socks |-> socks, d |-> "resolved"]
  ELSE IF kind = "mock"
  THEN [socks |-> [socks EXCEPT ![cur].rs = 2, ![cur].closeT = TRUE], d |-> "poll"]
  ELSE [socks |-> [socks EXCEPT ![cur].rs = 2, ![cur].cl = TRUE], d |-> "event"]

\* Node _ensureDisconnect calls that are pending, each with its 5000 ms timer
PendingTimed == (IF disconnecting = "event" THEN 1 ELSE 0) + (IF disp = "waitNode" THEN 1 ELSE 0)
TimerFits == (kind = "node" /\ NeedsClose) => forceTimers + PendingTimed < MaxForceTimers

\* WebSocketConnectorBase._disconnect, up to its suspension; q as in Proceed
BeginDisconnect(q) ==
  IF disconnecting # "none"
  THEN UNCHANGED <<state, emitted, ignoredUpdate, socks, disconnecting>> /\ mq' = q
  ELSE /\ TimerFits
       /\ LET e == EnsureDisconnect IN
            /\ SetState("Disconnecting")
            /\ socks' = e.socks
            /\ disconnecting' = e.d
            /\ mq' = IF e.d = "resolved" THEN Append(q, DCONT) ELSE q

\* a dispose callback that forgets `this._virtualConnections.delete(...)`
DisposeVcKeepsEntry(h) ==
  /\ Quiet
  /\ handles[h] = "live"
  /\ handles' = [handles EXCEPT ![h] = "disposed"]
  /\ completed' = completed \cup {h}
  /\ Spoil
  /\ UNCHANGED <<cfg, fin, state, emitted, ignoredUpdate, wasDisposed, vcs, idleTimer, currentAttempt, retryTimers,
                 lastDelay, disconnecting, dq, socks, cur, forceTimers, emitting, tasks,
                 mq, disp, outcome, hist, msgDone>>

\* a dispose that completes the message stream of every virtual connection
DisposeVcCompletesAll(h) ==
  /\ Quiet
  /\ handles[h] = "live"
  /\ handles' = [handles EXCEPT ![h] = "disposed"]
  /\ vcs' = vcs \ {h}
  /\ completed' = completed \cup vcs
  /\ idleTimer' = IF vcs' = {} /\ TargetState(state) THEN TRUE ELSE idleTimer
  /\ Spoil
  /\ UNCHANGED <<cfg, fin, state, emitted, ignoredUpdate, wasDisposed, currentAttempt, retryTimers, lastDelay,
                 disconnecting, dq, socks, cur, forceTimers, emitting, tasks, mq,
                 disp, outcome, hist, msgDone>>

\* the dispose callback connect() gives to each VirtualWebSocketConnection,
\* called by VirtualWebSocketConnection._onDispose
DisposeVc(h) ==
  /\ Quiet
  /\ handles[h] = "live"
  /\ handles' = [handles EXCEPT ![h] = "disposed"]
  /\ vcs' = vcs \ {h}
  /\ completed' = completed \cup {h}
  /\ idleTimer' = IF vcs' = {} /\ TargetState(state) THEN TRUE ELSE idleTimer
  /\ Spoil
  /\ UNCHANGED <<cfg, fin, state, emitted, ignoredUpdate, wasDisposed, currentAttempt, retryTimers, lastDelay,
                 disconnecting, dq, socks, cur, forceTimers, emitting, tasks, mq,
                 disp, outcome, hist, msgDone>>

\* a dispose() that runs _onDispose every time it is called
DisposeRunsAlways(h) == TRUE

\* DisposableBase.dispose() runs _onDispose only on an object that has not
\* been disposed yet
DisposeRuns(h) == handles[h] = "live"

\* dispose() called again on a handle that has been disposed; when _onDispose
\* runs it unsubscribes, completes the handle's stream and calls the dispose
\* callback of connect(): delete, then _scheduleIdleDisconnect if the set is empty
DisposeAgain(h) ==
  /\ Quiet
  /\ handles[h] = "disposed"
  /\ redisposed' = redisposed \cup {h}
  /\ IF DisposeRuns(h)
     THEN /\ vcs' = vcs \ {h}
          /\ completed' = completed \cup {h}
          /\ idleTimer' = IF vcs' = {} /\ TargetState(state) THEN TRUE ELSE idleTimer
     ELSE UNCHANGED <<vcs, completed, idleTimer>>
  /\ UNCHANGED <<cfg, stateDone, errDone, liveAtDispose, delivered, state, emitted,
                 ignoredUpdate, wasDisposed, handles, currentAttempt, retryTimers,
                 lastDelay, disconnecting, dq, socks, cur, forceTimers, emitting, tasks,
                 mq, disp, outcome, ghost, hist, msgDone>>

\* disposeAsync(): AsyncDisposableBase marks the object disposed, then runs
\* _onDisposeAsync, which NodeWebSocketConnector overrides with _ensureDisconnect
DisposeAsync ==
  /\ Quiet
  /\ ~wasDisposed
  /\ wasDisposed' = TRUE
  /\ Spoil
  /\ IF kind = "mock"
     THEN /\ msgDone' = TRUE
          /\ completed' = completed \cup vcs
          /\ errDone' = TRUE
          /\ BeginDisconnect(mq)
          /\ disp' = "waitDisc"
     ELSE /\ TimerFits
          /\ UNCHANGED <<streams, errDone>>
          /\ LET e == EnsureDisconnect IN
               /\ socks' = e.socks
               /\ disp' = IF e.d = "resolved" THEN "done" ELSE "waitNode"
          /\ UNCHANGED <<state, emitted, ignoredUpdate, disconnecting, mq>>
  /\ liveAtDispose' = vcs
  /\ UNCHANGED <<cfg, stateDone, delivered, redisposed, handles, vcs, idleTimer, currentAttempt,
                 retryTimers, lastDelay, dq, cur, forceTimers, emitting, tasks, outcome,
                 hist>>
\* ---------------------------------------------------------------------------
\* continuations, in microtask order

\* _disconnect after `await (this._disconnecting = this._ensureDisconnect())`
DisconnectDone ==
  /\ Quiet
  /\ mq # <<>> /\ Head(mq) = DCONT
  /\ disconnecting' = "none"
  /\ SetState("Disconnected")
  /\ IF disp = "waitDisc"
     THEN disp' = "ready" /\ mq' = Append(Tail(mq), DISP)
     ELSE disp' = disp /\ mq' = Tail(mq)
  /\ UNCHANGED <<cfg, fin, wasDisposed, handles, vcs, idleTimer, currentAttempt, retryTimers,
                 lastDelay, dq, socks, cur, forceTimers, emitting, tasks, outcome, ghost,
                 hist, streams>>

\* _onDisposeAsync after `await this._disconnect()`: state Disposing
DisposeMark ==
  /\ Quiet
  /\ mq # <<>> /\ Head(mq) = DISP
  /\ SetState("Disposing")
  /\ disp' = "cascade"
  /\ mq' = Tail(mq)
  /\ UNCHANGED <<cfg, fin, wasDisposed, handles, vcs, idleTimer, currentAttempt, retryTimers,
                 lastDelay, disconnecting, dq, socks, cur, forceTimers, emitting, tasks,
                 outcome, ghost, hist, streams>>

\* _onDisposeAsync, same run: dispose every virtual connection, state Disposed
DisposeCascade ==
  /\ disp = "cascade"
  /\ handles' = [h \in Handles |-> IF h \in vcs THEN "disposed" ELSE handles[h]]
  /\ vcs' = {}
  /\ completed' = completed \cup vcs
  /\ idleTimer' = IF vcs # {} /\ TargetState(state) THEN TRUE ELSE idleTimer
  /\ SetState("Disposed")
  /\ stateDone' = TRUE
  /\ disp' = "done"
  /\ UNCHANGED <<cfg, errDone, liveAtDispose, delivered, redisposed, wasDisposed, currentAttempt, retryTimers, lastDelay, disconnecting,
                 dq, socks, cur, forceTimers, emitting, tasks, mq, outcome, ghost, hist,
                 msgDone>>

\* a catch block that re-raises without `next(Disconnected)`
ConnectCatchKeepsState == [state |-> state, pc |-> "thr"]

\* a catch block that swallows the failure
ConnectCatchSwallows == [state |-> "Disconnected", pc |-> "ret"]

\* the catch block of _connect: next(Disconnected), then `throw error`
ConnectCatch == [state |-> "Disconnected", pc |-> "thr"]

HandlerFits(c) == HandleConnectionFailure(c).timers <= MaxRetryTimers

\* the continuation of task t: inside _connect, then in its caller
RunTask(t) ==
  /\ Quiet
  /\ mq # <<>> /\ Head(mq) = t
  /\ LET k == tasks[t] IN
     CASE k.pc = "proceed" ->
            /\ Proceed(t, k.type, Tail(mq), FALSE, 0)
            /\ UNCHANGED <<handles, vcs, currentAttempt, retryTimers, lastDelay, outcome,
                           hist, completed>>
       [] k.pc = "res" ->
            /\ SetState(k.r)
            /\ streak' = IF k.r = "Connected" THEN 0 ELSE streak
            /\ tasks' = [tasks EXCEPT ![t].pc = "ret"]
            /\ mq' = Append(Tail(mq), t)
            /\ UNCHANGED <<handles, vcs, currentAttempt, retryTimers, lastDelay, outcome,
                           socks, cur, ghost, handlerTick, gaveUp, errTick, inbox,
                           completed>>
       [] k.pc = "err" ->
            /\ SetState(ConnectCatch.state)
            /\ tasks' = [tasks EXCEPT ![t].pc = ConnectCatch.pc, ![t].r = "ConnectError"]
            /\ mq' = Append(Tail(mq), t)
            /\ UNCHANGED <<handles, vcs, currentAttempt, retryTimers, lastDelay, outcome,
                           socks, cur, ghost, hist, completed>>
       [] k.pc = "ret" /\ k.type = "connect" ->
            LET h == LowestOf(UnusedHandles) IN
            /\ handles' = [handles EXCEPT ![h] = "live"]
            /\ vcs' = vcs \cup {h}
            /\ completed' = IF msgDone THEN completed \cup {h} ELSE completed
            /\ outcome' = "handle"
            /\ Ghost(FALSE, 0, 1, 0)
            /\ tasks' = [tasks EXCEPT ![t] = FreeTask]
            /\ mq' = Tail(mq)
            /\ UNCHANGED <<state, emitted, ignoredUpdate, currentAttempt, retryTimers, lastDelay, socks, cur, hist>>
       [] k.pc = "ret" /\ k.type = "send" ->
            /\ outcome' = SendAfterConnect
            /\ tasks' = [tasks EXCEPT ![t] = FreeTask]
            /\ mq' = Tail(mq)
            /\ UNCHANGED <<state, emitted, ignoredUpdate, handles, vcs, currentAttempt, retryTimers, lastDelay,
                           socks, cur, ghost, hist, completed>>
       [] k.pc = "ret" /\ k.type = "retry" ->
            /\ currentAttempt' = 0
            /\ tasks' = [tasks EXCEPT ![t] = FreeTask]
            /\ mq' = Tail(mq)
            /\ UNCHANGED <<state, emitted, ignoredUpdate, handles, vcs, retryTimers, lastDelay, outcome,
                           socks, cur, ghost, hist, completed>>
       [] k.pc = "thr" /\ k.type \in {"connect", "send"} ->
            /\ outcome' = k.r
            /\ Spoil
            /\ tasks' = [tasks EXCEPT ![t] = FreeTask]
            /\ mq' = Tail(mq)
            /\ UNCHANGED <<state, emitted, ignoredUpdate, handles, vcs, currentAttempt, retryTimers, lastDelay,
                           socks, cur, hist, completed>>
       [] k.pc = "thr" /\ k.type = "retry" ->
            /\ HandlerFits(Core)
            /\ RunHandler
            /\ tasks' = [tasks EXCEPT ![t] = FreeTask]
            /\ mq' = Tail(mq)
            /\ UNCHANGED <<handles, vcs, outcome, socks, cur, ghost, completed>>
  /\ UNCHANGED <<cfg, fin, wasDisposed, idleTimer, disconnecting, dq, forceTimers, emitting, disp,
                 msgDone>>

\* ---------------------------------------------------------------------------
\* timers of the connector

\* the condition of the idle callback
IdleWanted == vcs = {} /\ ~wasDisposed /\ state # "Disposing"

\* the setTimeout callback of _scheduleIdleDisconnect
IdleFire ==
  /\ Macro
  /\ idleTimer
  /\ idleTimer' = FALSE
  /\ IF IdleWanted
     THEN BeginDisconnect(mq)
     ELSE UNCHANGED <<state, emitted, ignoredUpdate, socks, disconnecting, mq>>
  /\ UNCHANGED <<cfg, fin, wasDisposed, handles, vcs, currentAttempt, retryTimers, lastDelay,
                 dq, cur, forceTimers, emitting, tasks, disp, outcome, ghost, hist, streams>>

\* a backoff callback that does not look at the disposed flag
RetryIgnoresDisposal == vcs # {}

\* a backoff callback that retries unconditionally
RetryAlways == TRUE

\* the condition of the backoff callback: a virtual connection is registered
\* and the connector is not disposed
RetryWanted == vcs # {} /\ ~wasDisposed

\* the setTimeout callback of _handleConnectionFailure
RetryFire ==
  /\ Macro
  /\ retryTimers > 0
  /\ retryTimers' = retryTimers - 1
  /\ IF RetryWanted
     THEN /\ FreeTasks # {}
          /\ BeginConnect(LowestOf(FreeTasks), "retry", mq, FALSE, 0)
     ELSE UNCHANGED <<state, emitted, ignoredUpdate, socks, cur, dq, tasks, mq, ghost>>
  /\ UNCHANGED <<cfg, fin, wasDisposed, handles, vcs, idleTimer, currentAttempt, lastDelay,
                 disconnecting, forceTimers, emitting, disp, outcome, hist, streams>>
\* ---------------------------------------------------------------------------
\* socket callbacks

Waiters(s) == {t \in Tasks : tasks[t].pc = "waitOpen" /\ tasks[t].sock = s}
InDq(t) == \E i \in 1..Len(dq) : dq[i] = t

\* the promise of the pending _ensureDisconnect settles: _disconnect resumes
\* first, then every _connect suspended on `await d`
WakeTasks(tk) == [t \in Tasks |-> IF InDq(t) THEN [tk[t] EXCEPT !.pc = "proceed"] ELSE tk[t]]

\* ws.on('open') of NodeWebSocketConnector._connectWebSocket
NodeOpen(s) ==
  /\ Macro
  /\ kind = "node"
  /\ socks[s].rs = 0
  /\ socks' = [socks EXCEPT ![s].rs = 1, ![s].est = TRUE]
  /\ IF socks[s].lis
     THEN /\ RequestState("Connected")
          /\ streak' = 0
          /\ tasks' = [t \in Tasks |-> IF t \in Waiters(s)
                                       THEN [tasks[t] EXCEPT !.pc = "res", !.r = "Connected"]
                                       ELSE tasks[t]]
          /\ mq' = IF Waiters(s) # {} THEN <<LowestOf(Waiters(s))>> ELSE <<>>
     ELSE UNCHANGED <<state, emitted, ignoredUpdate, tasks, mq, streak>>
  /\ UNCHANGED <<cfg, fin, wasDisposed, handles, vcs, idleTimer, currentAttempt, retryTimers,
                 lastDelay, disconnecting, dq, cur, forceTimers, emitting, disp, outcome,
                 ghost, handlerTick, gaveUp, errTick, inbox, streams>>

\* ws.on('error'): the failure handler runs and the open promise is rejected;
\* the ws library emits 'close' right after 'error', in the same callback
NodeError(s) ==
  /\ Macro
  /\ kind = "node"
  /\ socks[s].rs \in {0, 1, 2}
  /\ socks[s].lis
  /\ HandlerFits(Core) /\ HandlerFits(HandleConnectionFailure(Core))
  /\ RunHandler
  /\ socks' = [socks EXCEPT ![s].rs = 2]
  /\ emitting' = s
  /\ tasks' = [t \in Tasks |-> IF t \in Waiters(s)
                               THEN [tasks[t] EXCEPT !.pc = "err"]
                               ELSE tasks[t]]
  /\ mq' = IF Waiters(s) # {} THEN <<LowestOf(Waiters(s))>> ELSE <<>>
  /\ Spoil
  /\ UNCHANGED <<cfg, fin, wasDisposed, handles, vcs, idleTimer, disconnecting, dq, cur,
                 forceTimers, disp, outcome, streams>>

\* removeAllListeners() on socket s also removes the 'open' and 'error'
\* listeners that settle the promise of _connectWebSocket: a connect sequence
\* waiting on that promise is never resumed
Orphaned(tk, s) ==
  [t \in Tasks |-> IF tk[t].pc = "waitOpen" /\ tk[t].sock = s
                   THEN [tk[t] EXCEPT !.pc = "lost"]
                   ELSE tk[t]]

\* what a 'close' emit on socket s does after the connector's own listener:
\* the cleanup listener of _ensureDisconnect removes the listeners of the
\* current socket and settles the pending _ensureDisconnect promises
CloseCleanup(s, q) ==
  LET reg == socks[s].cl
      s1 == [socks EXCEPT ![s].rs = 3, ![s].cl = FALSE]
      s2 == IF reg /\ cur # 0 THEN [s1 EXCEPT ![cur].lis = FALSE] ELSE s1
      dres == reg /\ disconnecting = "event"
      pres == reg /\ disp = "waitNode"
  IN /\ socks' = Collect(s2, cur)
     /\ disconnecting' = IF dres THEN "resolved" ELSE disconnecting
     /\ mq' = IF dres THEN Append(q, DCONT) \o dq ELSE q
     /\ dq' = IF dres THEN <<>> ELSE dq
     /\ tasks' = LET tk == IF reg /\ cur # 0 THEN Orphaned(tasks, cur) ELSE tasks
                 IN IF dres THEN WakeTasks(tk) ELSE tk
     /\ disp' = IF pres THEN "done" ELSE disp
     /\ forceTimers' = forceTimers + (IF dres THEN 1 ELSE 0) + (IF pres THEN 1 ELSE 0)

\* a 'close' listener that also disposes the virtual connections
NodeCloseAfterErrorDisposes ==
  /\ emitting # 0
  /\ IF socks[emitting].lis
     THEN RunHandler
     ELSE UNCHANGED <<state, emitted, ignoredUpdate, currentAttempt, retryTimers, lastDelay, hist>>
  /\ CloseCleanup(emitting, mq)
  /\ emitting' = 0
  /\ vcs' = {}
  /\ handles' = [h \in Handles |-> IF h \in vcs THEN "disposed" ELSE handles[h]]
  /\ completed' = completed \cup vcs
  /\ UNCHANGED <<cfg, fin, wasDisposed, idleTimer, cur, outcome, ghost, msgDone>>

\* ws.on('close') with a code other than 1000, emitted right after 'error'
NodeCloseAfterError ==
  /\ emitting # 0
  /\ IF socks[emitting].lis
     THEN RunHandler
     ELSE UNCHANGED <<state, emitted, ignoredUpdate, currentAttempt, retryTimers, lastDelay, hist>>
  /\ CloseCleanup(emitting, mq)
  /\ emitting' = 0
  /\ UNCHANGED <<cfg, fin, wasDisposed, handles, vcs, idleTimer, cur, outcome, ghost, streams>>

\* ws.on('close') on its own: code 1000 (clean) or another code
NodeClose(s, clean) ==
  /\ Macro
  /\ kind = "node"
  /\ socks[s].rs \in {1, 2}
  /\ socks[s].est
  /\ IF ~socks[s].lis
     THEN UNCHANGED <<state, emitted, ignoredUpdate, currentAttempt, retryTimers, lastDelay, hist>>
     ELSE IF clean
     THEN /\ RequestState("Disconnected")
          /\ UNCHANGED <<currentAttempt, retryTimers, lastDelay, hist>>
     ELSE /\ HandlerFits(Core)
          /\ RunHandler
  /\ CloseCleanup(s, mq)
  /\ Spoil
  /\ UNCHANGED <<cfg, fin, wasDisposed, handles, vcs, idleTimer, cur, emitting, outcome, streams>>

\* the 5000 ms setTimeout callback of Node _ensureDisconnect; which is
\* "stale" (its call settled already), "d" (the call _disconnect awaits) or
\* "disp" (the call disposeAsync awaits)
NodeForceTimer(which) ==
  /\ Macro
  /\ kind = "node"
  /\ CASE which = "stale" -> forceTimers > 0
       [] which = "d" -> disconnecting = "event"
       [] which = "disp" -> disp = "waitNode"
  /\ LET hit == cur # 0 /\ socks[cur].rs # 3
         dres == hit /\ which = "d"
         pres == hit /\ which = "disp"
     IN /\ socks' = IF hit
                    THEN [socks EXCEPT ![cur].rs = 2, ![cur].lis = FALSE,
                                       ![cur].cl = FALSE, ![cur].est = TRUE]
                    ELSE socks
        /\ forceTimers' = IF which = "stale" THEN forceTimers - 1 ELSE forceTimers
        /\ disconnecting' = IF dres THEN "resolved" ELSE disconnecting
        /\ mq' = IF dres THEN <<DCONT>> \o dq ELSE mq
        /\ dq' = IF dres THEN <<>> ELSE dq
        /\ tasks' = LET tk == IF hit THEN Orphaned(tasks, cur) ELSE tasks
                    IN IF dres THEN WakeTasks(tk) ELSE tk
        /\ disp' = IF pres THEN "done" ELSE disp
        /\ hit \/ which = "stale"
  /\ UNCHANGED <<cfg, fin, state, emitted, ignoredUpdate, wasDisposed, handles, vcs, idleTimer, currentAttempt,
                 retryTimers, lastDelay, cur, emitting, outcome, ghost, hist, streams>>

\* the 5 ms setTimeout callback of MockWebSocketConnector._connectWebSocket
MockAutoOpen(t) ==
  /\ Macro
  /\ kind = "mock"
  /\ tasks[t].pc = "waitOpen"
  /\ cur # 0
  /\ socks' = [socks EXCEPT ![cur].rs = 1, ![cur].est = TRUE]
  /\ tasks' = [tasks EXCEPT ![t].pc = "res", ![t].r = "Connected"]
  /\ mq' = <<t>>
  /\ UNCHANGED <<cfg, fin, state, emitted, ignoredUpdate, wasDisposed, handles, vcs, idleTimer, currentAttempt,
                 retryTimers, lastDelay, disconnecting, dq, cur, forceTimers, emitting,
                 disp, outcome, ghost, hist, streams>>

\* checkConnection of MockWebSocketConnector._ensureConnection
MockPollOpen(t) ==
  /\ Macro
  /\ kind = "mock"
  /\ tasks[t].pc = "poll"
  /\ cur # 0 /\ socks[cur].rs = 1
  /\ tasks' = [tasks EXCEPT ![t].pc = "res", ![t].r = "Connected"]
  /\ mq' = <<t>>
  /\ UNCHANGED <<cfg, fin, state, emitted, ignoredUpdate, wasDisposed, handles, vcs, idleTimer, currentAttempt,
                 retryTimers, lastDelay, disconnecting, dq, socks, cur, forceTimers,
                 emitting, disp, outcome, ghost, hist, streams>>

\* the setTimeout callback of MockWebSocket.close: CLOSED, then onclose
MockCloseTimer(s) ==
  /\ Macro
  /\ kind = "mock"
  /\ socks[s].closeT
  /\ socks' = Collect([socks EXCEPT ![s].rs = 3, ![s].closeT = FALSE], cur)
  /\ RequestState("Disconnected")
  /\ UNCHANGED <<cfg, fin, wasDisposed, handles, vcs, idleTimer, currentAttempt, retryTimers,
                 lastDelay, disconnecting, dq, cur, forceTimers, emitting, tasks, mq,
                 disp, outcome, ghost, hist, streams>>

\* checkClosed of MockWebSocketConnector._ensureDisconnect
MockPollClosed ==
  /\ Macro
  /\ kind = "mock"
  /\ disconnecting = "poll"
  /\ cur = 0 \/ socks[cur].rs = 3
  /\ disconnecting' = "resolved"
  /\ mq' = <<DCONT>> \o dq
  /\ dq' = <<>>
  /\ tasks' = WakeTasks(tasks)
  /\ UNCHANGED <<cfg, fin, state, emitted, ignoredUpdate, wasDisposed, handles, vcs, idleTimer, currentAttempt,
                 retryTimers, lastDelay, socks, cur, forceTimers, emitting, disp,
                 outcome, ghost, hist, streams>>

\* MockWebSocketConnector.simulateConnectionFailure / simulateError: the
\* setTimeout callback of MockWebSocket.simulateError (onerror, CLOSED, onclose)
MockSimulateError ==
  /\ Macro
  /\ kind = "mock"
  /\ cur # 0
  /\ socks' = [socks EXCEPT ![cur].rs = 3]
  /\ RequestState("Disconnected")
  /\ errTick' = EmitError.tick
  /\ inbox' = EmitError.inbox
  /\ Spoil
  /\ UNCHANGED <<cfg, fin, wasDisposed, handles, vcs, idleTimer, currentAttempt, retryTimers,
                 lastDelay, disconnecting, dq, cur, forceTimers, emitting, tasks, mq,
                 disp, outcome, handlerTick, streak, gaveUp, streams>>

\* a message arrives from the transport: ws.on('message') of the Node connector
\* (the socket is open or closing and still has the connector's listeners),
\* the timer of MockWebSocket.simulateMessage for the mock (onmessage is
\* called whatever the readyState); the messages are numbered in arrival order
Deliver(s) ==
  /\ Macro
  /\ delivered < MaxMsgs
  /\ IF kind = "node"
     THEN socks[s].rs \in {1, 2} /\ socks[s].lis
     ELSE socks[s].rs # -1
  /\ delivered' = delivered + 1
  /\ inbox' = EmitMessage(delivered + 1)
  /\ UNCHANGED <<cfg, stateDone, errDone, liveAtDispose, redisposed, state, emitted,
                 ignoredUpdate, wasDisposed, handles, vcs, idleTimer, currentAttempt, retryTimers,
                 lastDelay, disconnecting, dq, socks, cur, forceTimers, emitting,
                 tasks, mq, disp, outcome, ghost, handlerTick, streak, gaveUp, errTick,
                 streams>>

Next ==
  \/ Connect
  \/ \E h \in Handles : Send(h)
  \/ \E h \in Handles : DisposeVc(h)
  \/ DisposeAsync
  \/ DisconnectDone
  \/ DisposeMark
  \/ DisposeCascade
  \/ \E t \in Tasks : RunTask(t)
  \/ IdleFire
  \/ RetryFire
  \/ \E s \in Socks : NodeOpen(s)
  \/ \E s \in Socks : NodeError(s)
  \/ NodeCloseAfterError
  \/ \E s \in Socks, clean \in BOOLEAN : NodeClose(s, clean)
  \/ \E which \in {"stale", "d", "disp"} : NodeForceTimer(which)
  \/ \E t \in Tasks : MockAutoOpen(t)
  \/ \E t \in Tasks : MockPollOpen(t)
  \/ \E s \in Socks : MockCloseTimer(s)
  \/ MockPollClosed
  \/ MockSimulateError

Spec == Init /\ [][Next]_vars

\* the Node connector with a reconnectAttempts option above the cap of 10
InitBackoff ==
  /\ kind = "node"
  /\ reconnectAttempts = MaxAttemptCap + 2
  /\ Fresh

NextBackoff ==
  \/ Connect
  \/ \E h \in Handles : Send(h)
  \/ \E h \in Handles : DisposeVc(h)
  \/ DisposeAsync
  \/ DisconnectDone
  \/ \E t \in Tasks : RunTask(t)
  \/ IdleFire
  \/ RetryFire
  \/ \E s \in Socks : NodeOpen(s)
  \/ \E s \in Socks : NodeError(s)
  \/ NodeCloseAfterError
  \/ \E s \in Socks, clean \in BOOLEAN : NodeClose(s, clean)
  \/ \E which \in {"stale", "d", "disp"} : NodeForceTimer(which)

SpecBackoff == InitBackoff /\ [][NextBackoff]_vars

\* ---------------------------------------------------------------------------
TypeOK ==
  /\ state \in {"Disconnected", "Connecting", "Connected", "Reconnecting",
                "Disconnecting", "Disposing", "Disposed"}
  /\ vcs \subseteq Handles
  /\ currentAttempt \in 0..MaxAttemptCap
  /\ retryTimers \in 0..MaxRetryTimers
  /\ cur \in 0..MaxSockets

\* the connector with messages arriving from the transport, without
\* automatic reconnection (reconnectAttempts = 0, the default)
InitMsg == Init /\ reconnectAttempts = 0

NextMsg ==
  \/ Connect
  \/ \E h \in Handles : Send(h)
  \/ \E h \in Handles : DisposeVc(h)
  \/ DisposeAsync
  \/ DisconnectDone
  \/ DisposeMark
  \/ DisposeCascade
  \/ \E t \in Tasks : RunTask(t)
  \/ IdleFire
  \/ \E s \in Socks : NodeOpen(s)
  \/ \E s \in Socks : NodeError(s)
  \/ NodeCloseAfterError
  \/ \E s \in Socks, clean \in BOOLEAN : NodeClose(s, clean)
  \/ \E which \in {"stale", "d", "disp"} : NodeForceTimer(which)
  \/ \E t \in Tasks : MockAutoOpen(t)
  \/ \E t \in Tasks : MockPollOpen(t)
  \/ \E s \in Socks : MockCloseTimer(s)
  \/ MockPollClosed
  \/ MockSimulateError
  \/ \E s \in Socks : Deliver(s)

SpecMsg == InitMsg /\ [][NextMsg]_vars

\* the connector without automatic reconnection, with callers that dispose
\* a handle more than once
NextDispose ==
  \/ Connect
  \/ \E h \in Handles : Send(h)
  \/ \E h \in Handles : DisposeVc(h)
  \/ \E h \in Handles : DisposeAgain(h)
  \/ DisposeAsync
  \/ DisconnectDone
  \/ DisposeMark
  \/ DisposeCascade
  \/ \E t \in Tasks : RunTask(t)
  \/ IdleFire
  \/ \E s \in Socks : NodeOpen(s)
  \/ \E s \in Socks : NodeError(s)
  \/ NodeCloseAfterError
  \/ \E s \in Socks, clean \in BOOLEAN : NodeClose(s, clean)
  \/ \E which \in {"stale", "d", "disp"} : NodeForceTimer(which)
  \/ \E t \in Tasks : MockAutoOpen(t)
  \/ \E t \in Tasks : MockPollOpen(t)
  \/ \E s \in Socks : MockCloseTimer(s)
  \/ MockPollClosed
  \/ MockSimulateError

SpecDispose == InitMsg /\ [][NextDispose]_vars

\* ---------------------------------------------------------------------------
\* properties

ActiveVirtualConnections == Cardinality(vcs)
Transports == {s \in Socks : socks[s].rs \in {0, 1}}
LiveHandles == {h \in Handles : handles[h] = "live"}

\* C1 as stated: for every N >= 0 connect() calls begun on a fresh connector
\* before any of them resolved, once all N have resolved exactly one transport
\* has been opened and activeVirtualConnections = N.
C1_AsStated ==
  (pristine /\ started = resolved) =>
    (created = 1 /\ ActiveVirtualConnections = started)

\* C1 amended: N >= 1 such calls open exactly one transport, from the first
\* call on; N = 0 calls open none; once all N have resolved
\* activeVirtualConnections = N.
C1_OneTransportPerBatch ==
  /\ (pristine /\ started >= 1) => created = 1
  /\ (pristine /\ started = 0) => created = 0
  /\ (pristine /\ started = resolved) => ActiveVirtualConnections = started

C1_Witness ==
  pristine /\ started = MaxHandles /\ resolved = MaxHandles /\ created = 1

\* C2: in every reachable state at most one transport is open or being opened.
C2_AtMostOneTransport == Cardinality(Transports) <= 1

C2_Witness ==
  /\ cur # 0 /\ socks[cur].rs \in {0, 1}
  /\ \E s \in Socks : s # cur /\ socks[s].rs = 2

\* C3: in every reachable state activeVirtualConnections is non-negative and is
\* the number of handles connect() returned that have not been disposed.
C3_ActiveEqualsLive ==
  /\ ActiveVirtualConnections >= 0
  /\ vcs = LiveHandles
  /\ ActiveVirtualConnections = Cardinality(LiveHandles)

C3_Witness ==
  /\ \E h \in Handles : handles[h] = "disposed"
  /\ \E h \in Handles : handles[h] = "live"
  /\ ActiveVirtualConnections = 1

\* an idle timer is pending for a Connected connector without live handles
ArmedIdle == idleTimer /\ state = "Connected" /\ vcs = {} /\ ~wasDisposed

\* a step in which the connector itself closes or terminates its open socket
ConnectorCloses ==
  /\ cur # 0 /\ socks[cur].rs = 1
  /\ socks'[cur].rs = 2 /\ emitting' = 0

\* C4 as stated: once the disposal of the last handle of a Connected connector
\* armed the idle timer, the connector (not being disposed) closes the transport
\* only in that timer's callback; a connect() before it cancels the timer and
\* leaves the state Connected.
C4_AsStated ==
  [][/\ (ArmedIdle /\ ~wasDisposed' /\ ConnectorCloses) => IdleFire
     /\ (ArmedIdle /\ Connect) => (~idleTimer' /\ state' = "Connected")]_vars

\* a step in which _handleConnectionFailure runs
HandlerStep == handlerTick' # handlerTick

\* C5: when the failure handler runs, the state becomes Reconnecting if
\* min(reconnectAttempts, 10) > 0, the attempt counter is below that maximum
\* and a virtual connection is live; in every other case it becomes Disconnected.
C5_HandlerOutcome ==
  [][HandlerStep =>
       state' = IF /\ Min(reconnectAttempts, 10) > 0
                   /\ currentAttempt < Min(reconnectAttempts, 10)
                   /\ ActiveVirtualConnections > 0
                THEN "Reconnecting"
                ELSE "Disconnected"]_vars

C5_Witness ==
  /\ handlerTick = 1 /\ state = "Reconnecting"
  /\ currentAttempt = 1 /\ reconnectAttempts = 2 /\ ActiveVirtualConnections = 1

\* a transport failure, a firing backoff timer, or a continuation of a retry
FailureOrRetryStep ==
  \/ \E s \in Socks : NodeError(s)
  \/ NodeCloseAfterError
  \/ \E s \in Socks, clean \in BOOLEAN : NodeClose(s, clean)
  \/ MockSimulateError
  \/ RetryFire
  \/ \E t \in Tasks : tasks[t].type = "retry" /\ RunTask(t)

C7_BackoffDelays ==
  [][(HandlerStep /\ state' = "Reconnecting") =>
       LET table == <<1000, 2000, 4000, 8000, 16000, 30000, 30000, 30000, 30000, 30000>>
       IN /\ currentAttempt' = currentAttempt + 1
          /\ currentAttempt' \in 1..10
          /\ lastDelay' = table[currentAttempt']]_vars

C7_Witness ==
  state = "Reconnecting" /\ currentAttempt = 10 /\ lastDelay = 30000

\* C8 as stated: the attempt counter is 0 after any successful connect
\* sequence, whichever caller started it: once the state is Connected and
\* every continuation has run, the counter is 0, so that the next failure is
\* handled as attempt 1.
C8_AsStated ==
  (state = "Connected" /\ mq = <<>> /\ emitting = 0) => currentAttempt = 0

\* C9 as stated: with k = min(reconnectAttempts, 10) >= 1 and a virtual
\* connection live, each of the first k failures in a row (none preceded by a
\* successful connect since the row began) moves the state to Reconnecting,
\* and failure k + 1 moves it to Disconnected with the attempt counter at 0.
C9_AsStated ==
  [][(HandlerStep /\ Min(reconnectAttempts, 10) >= 1 /\ ActiveVirtualConnections > 0) =>
       /\ streak < Min(reconnectAttempts, 10) => state' = "Reconnecting"
       /\ streak = Min(reconnectAttempts, 10) =>
            (state' = "Disconnected" /\ currentAttempt' = 0)]_vars

\* C10 as stated: once failure handling gave up on an exhausted budget and
\* left the state Disconnected, no connect sequence starts until a caller
\* invokes connect() or send(): a backoff timer that fires meanwhile starts none.
C10_AsStated ==
  [][(gaveUp /\ state = "Disconnected" /\ RetryFire) => tasks' = tasks]_vars

\* ---------------------------------------------------------------------------
\* disposal

\* the promise returned by disposeAsync() has resolved
DisposeResolved == disp = "done"

\* C11 as stated: once disposeAsync() has resolved, the last two values
\* emitted on the state stream are Disposing then Disposed, and the state,
\* error and message streams have all completed.
C11_AsStated ==
  DisposeResolved =>
    /\ emitted = <<"Disposing", "Disposed">>
    /\ stateDone /\ errDone /\ msgDone

\* C12: connect() called once disposeAsync() has been called, during the
\* disposal or after it, fails with the disposed error and has no effect: no
\* virtual connection is registered, no transport is opened, no connect
\* sequence starts, and the idle timer and the state stay as they were.
C12_ConnectAfterDispose ==
  [][(wasDisposed /\ Connect) =>
       /\ outcome' = "DisposedError"
       /\ UNCHANGED <<vcs, handles, socks, cur, created, tasks, mq, idleTimer,
                      state, emitted, ignoredUpdate>>]_vars

C12_Witness ==
  /\ outcome = "DisposedError"
  /\ disp = "waitDisc" /\ vcs # {} /\ state = "Disconnecting"

\* the step in which the promise returned by disposeAsync() resolves
DisposeResolves == disp # "done" /\ disp' = "done"

\* C13 as stated: when disposeAsync() resolves, every virtual connection that
\* was live when the disposal began has been disposed, its message stream
\* has completed, and activeVirtualConnections is 0.
C13_AsStated ==
  [][DisposeResolves =>
       /\ \A h \in liveAtDispose' : handles'[h] = "disposed" /\ h \in completed'
       /\ Cardinality(vcs') = 0]_vars

\* C14 as stated: for the Node connector, as for the mock connector, once
\* disposeAsync() has resolved the state is Disposed, the state, error and
\* message streams have completed and activeVirtualConnections is 0.
C14_AsStated ==
  (kind = "node" /\ DisposeResolved) =>
    /\ state = "Disposed"
    /\ stateDone /\ errDone /\ msgDone
    /\ ActiveVirtualConnections = 0

\* C15 as stated: the state is monotonic at the end of the connector's life:
\* once it is Disposing the only later value is Disposed, and once it is
\* Disposed it never changes again, whatever connect sequences, transport
\* failures, idle timers and backoff retries are still in flight.
C15_AsStated ==
  [][/\ state = "Disposing" => state' \in {"Disposing", "Disposed"}
     /\ state = "Disposed" => state' = "Disposed"]_vars

\* a listener of the transport calls _updateState
TransportUpdateStep ==
  \/ \E s \in Socks : NodeOpen(s)
  \/ \E s \in Socks, clean \in BOOLEAN : NodeClose(s, clean)
  \/ \E s \in Socks : MockCloseTimer(s)
  \/ MockSimulateError

\* C16: a state update the transport requests through _updateState while the
\* state is Disposing or Disposed is ignored: the state value stays as it was
\* and nothing is emitted on the state stream.
C16_UpdateIgnored ==
  [][(state \in {"Disposing", "Disposed"} /\ TransportUpdateStep) =>
       (state' = state /\ emitted' = emitted)]_vars

C16_Witness ==
  /\ ignoredUpdate /\ state = "Disposed"
  /\ emitted = <<"Disposing", "Disposed">>

\* ---------------------------------------------------------------------------
\* messages

\* the subscription of handle g to the connector's message stream is active
Receives(g) == ~msgDone /\ handles[g] = "live" /\ g \notin completed

\* C17: disposing one of several live virtual connections lowers
\* activeVirtualConnections by exactly one, arms no idle timer, leaves the
\* state and the transport as they were, and leaves every other live virtual
\* connection undisposed, its message stream not completed by the step and
\* its subscription as it was; a message the transport delivers afterwards,
\* while the connector is not being disposed, reaches every handle still live.
C17_DisposeOneOfSeveral ==
  /\ [][\A h \in Handles :
          (DisposeVc(h) /\ Cardinality(LiveHandles) >= 2) =>
            /\ Cardinality(vcs') = Cardinality(vcs) - 1
            /\ UNCHANGED <<idleTimer, state, emitted, socks, cur>>
            /\ \A g \in LiveHandles \ {h} :
                 /\ handles'[g] = "live"
                 /\ g \in vcs'
                 /\ (g \in completed') = (g \in completed)
                 /\ Receives(g)' = Receives(g)
                 /\ inbox'[g] = inbox[g]]_vars
  /\ [][\A s \in Socks :
          (Deliver(s) /\ ~wasDisposed /\ \E h \in Handles : handles[h] = "disposed") =>
            \A g \in LiveHandles : inbox'[g] = Append(inbox[g], delivered')]_vars

C17_Witness ==
  /\ handles[1] = "disposed" /\ handles[2] = "live"
  /\ inbox[1] = <<1>> /\ inbox[2] = <<1, 2>>
  /\ ~idleTimer /\ state = "Connected" /\ 2 \notin completed

\* C18 as stated: a virtual connection's message stream completes only when
\* that handle is disposed: in every reachable state, a handle whose message
\* stream has completed has been disposed.
C18_AsStated ==
  \A h \in completed : handles[h] = "disposed"

\* C19 as stated: every message the transport delivers to the connector is
\* delivered, once and in transport order, to the message stream of every
\* virtual connection live at that moment, and to no other handle.
C19_AsStated ==
  [][\A s \in Socks :
       Deliver(s) =>
         \A h \in Handles :
           inbox'[h] = IF handles[h] = "live"
                       THEN Append(inbox[h], delivered')
                       ELSE inbox[h]]_vars

\* a transport error or failure reaches the connector: the mock socket's
\* onerror, or a run of _handleConnectionFailure
TransportErrorStep == HandlerStep \/ MockSimulateError

\* C20: a transport error is published on the connector's error stream (as
\* long as that stream has not completed) and never reaches a virtual
\* connection: the step adds nothing to any handle's message stream and
\* terminates none, and no message stream ever holds anything but the
\* messages the transport delivered.
C20_ErrorsStayOffMessages ==
  /\ [](\A h \in Handles : \A i \in DOMAIN inbox[h] : inbox[h][i] \in 1..MaxMsgs)
  /\ [][TransportErrorStep =>
          /\ errTick' = IF errDone THEN errTick ELSE 1 - errTick
          /\ UNCHANGED <<inbox, completed, handles>>]_vars

C20_Witness ==
  /\ errTick = 1 /\ handlerTick = 1
  /\ handles[1] = "live" /\ inbox[1] = <<1>> /\ 1 \notin completed

\* ---------------------------------------------------------------------------
\* send and connect failures

\* the sockets a step creates: readyState becomes CONNECTING only in
\* `new WebSocket(...)`
NewTransports == {s \in Socks : socks'[s].rs = 0 /\ socks[s].rs # 0}
OpensTransport == NewTransports # {}

\* C21: send() on a virtual connection that has been disposed fails with the
\* disposed error and is not delegated to the connector: no connect sequence
\* starts, nothing is handed to the transport, and the state, the emitted
\* states and the sockets stay as they were.
C21_SendOnDisposedHandle ==
  [][\A h \in Handles :
       (handles[h] = "disposed" /\ Send(h)) =>
         /\ outcome' = "DisposedError"
         /\ UNCHANGED <<tasks, mq, dq, socks, cur, created, state, emitted,
                        idleTimer, vcs>>]_vars

C21_Witness ==
  /\ outcome = "DisposedError" /\ ~wasDisposed
  /\ handles[1] = "disposed" /\ handles[2] = "live" /\ state = "Connected"

\* send() starts a connect sequence: a live handle, a live connector, a state
\* other than Connected
SendConnects(h) ==
  Send(h) /\ handles[h] = "live" /\ ~wasDisposed /\ state # "Connected"

\* the step in which the send() that ran connect sequence t settles
SendSettles(t) ==
  RunTask(t) /\ tasks[t].type = "send" /\ tasks[t].pc \in {"ret", "thr"}

SendTasks(ts) == {t \in Tasks : ts[t].type = "send"}

\* C22 as stated: a send() that ran a connect sequence fails with the
\* not-connected error whenever the state is not Connected afterwards, and
\* hands the data to the transport whenever it is.
C22_AsStated ==
  [][\A t \in Tasks :
       SendSettles(t) =>
         IF state # "Connected"
         THEN outcome' = "NotConnected"
         ELSE outcome' \in {"sent", "SendError"}]_vars

\* C22: send() on a live handle while the state is not Connected starts
\* exactly one connect sequence and none after it. If the sequence raises
\* (the transport failed to open, or the connector was disposed meanwhile)
\* the send fails with that failure; if it returns and the state is not
\* Connected the send fails with the not-connected error; in both cases
\* nothing is handed to the transport. If it returns and the state is
\* Connected the data is handed to the transport.
C22_SendConnectsOnce ==
  /\ [][\A h \in Handles :
          SendConnects(h) =>
            /\ Cardinality(SendTasks(tasks')) = Cardinality(SendTasks(tasks)) + 1
            /\ \A t \in Tasks : tasks'[t] # tasks[t] => t \in SendTasks(tasks') \ SendTasks(tasks)
            /\ Cardinality(NewTransports) <= 1
            /\ outcome' = outcome]_vars
  /\ [][\A t \in Tasks :
          SendSettles(t) =>
            /\ tasks' = [tasks EXCEPT ![t] = FreeTask]
            /\ UNCHANGED <<socks, cur, state, emitted>>
            /\ IF tasks[t].pc = "thr"
               THEN outcome' = tasks[t].r /\ outcome' \in {"ConnectError", "DisposedError"}
               ELSE IF state # "Connected"
               THEN outcome' = "NotConnected"
               ELSE outcome' \in {"sent", "SendError"}]_vars

C22_Witness ==
  /\ outcome = "NotConnected" /\ state # "Connected"
  /\ LiveHandles # {} /\ SendTasks(tasks) = {}

\* the transport failed to open: _connect resumes in its catch block
ConnectFails(t) == RunTask(t) /\ tasks[t].pc = "err"

\* the failure of connect sequence t reaches the caller of connect() or send()
FailureReachesCaller(t) ==
  /\ RunTask(t)
  /\ tasks[t].pc = "thr" /\ tasks[t].r = "ConnectError"
  /\ tasks[t].type \in {"connect", "send"}

\* C23: when the transport fails to open during a connect sequence the state
\* becomes Disconnected and the failure is re-raised; the caller of connect()
\* or send() receives that failure, and no virtual connection is registered:
\* activeVirtualConnections stays as it was.
C23_ConnectFailure ==
  /\ [][\A t \in Tasks :
          ConnectFails(t) =>
            /\ state' = "Disconnected"
            /\ tasks' = [tasks EXCEPT ![t].pc = "thr", ![t].r = "ConnectError"]
            /\ mq' = Append(Tail(mq), t)
            /\ UNCHANGED <<vcs, handles>>]_vars
  /\ [][\A t \in Tasks :
          FailureReachesCaller(t) =>
            /\ outcome' = "ConnectError"
            /\ tasks' = [tasks EXCEPT ![t] = FreeTask]
            /\ UNCHANGED <<vcs, handles, state>>
            /\ Cardinality(vcs') = Cardinality(vcs)]_vars

C23_Witness ==
  /\ outcome = "ConnectError" /\ state = "Disconnected"
  /\ \A h \in Handles : handles[h] = "unused"
  /\ \A t \in Tasks : tasks[t] = FreeTask
  /\ ActiveVirtualConnections = 0

\* ---------------------------------------------------------------------------
\* connect during a disconnect

\* a _disconnect is in flight: from its Disconnecting to its Disconnected
DisconnectInFlight == disconnecting # "none"

\* Connecting is emitted on the state stream, or becomes the state
ShowsConnecting ==
  \/ state' = "Connecting" /\ state # "Connecting"
  \/ emitted' # emitted /\ emitted'[2] = "Connecting"

\* C24: a connect sequence requested while a disconnect is in flight does not
\* begin until the disconnect has finished: between the Disconnecting and the
\* Disconnected of one disconnect the state stream shows no Connecting and no
\* transport is opened; every connect() or send() arriving meanwhile only
\* queues behind the disconnect, and the disconnect finishes first; when a
\* sequence that waited opens a transport, every older socket is closed or
\* has been terminated by the disconnect.
C24_ConnectWaitsForDisconnect ==
  /\ [][DisconnectInFlight =>
          /\ ~ShowsConnecting
          /\ ~OpensTransport
          /\ \A t \in Tasks : tasks'[t].pc = "waitOpen" => tasks[t].pc = "waitOpen"]_vars
  /\ [][(disconnecting \in {"poll", "event"} /\ (Connect \/ \E h \in Handles : Send(h))
          /\ ~wasDisposed /\ tasks' # tasks) =>
            /\ Len(dq') = Len(dq) + 1
            /\ UNCHANGED <<state, emitted, socks, cur, mq>>]_vars
  /\ [][(disconnecting \in {"poll", "event"} /\ disconnecting' = "resolved") =>
          /\ dq' = <<>>
          /\ \E i \in DOMAIN mq' :
               /\ mq'[i] = DCONT
               /\ \A j \in DOMAIN mq' : InDq(mq'[j]) => i < j
          /\ \A t \in Tasks : InDq(t) => \E j \in DOMAIN mq' : mq'[j] = t]_vars
  /\ [][\A t \in Tasks :
          (RunTask(t) /\ tasks[t].pc = "proceed" /\ OpensTransport) =>
            \A s \in Socks : \/ socks[s].rs \in {-1, 3}
                             \/ socks[s].rs = 2 /\ ~socks[s].lis]_vars

C24_Witness ==
  /\ disconnecting = "none" /\ emitted[2] = "Connecting" /\ state = "Connecting"
  /\ \E t \in Tasks : tasks[t].pc = "proceed"
  /\ \E t \in Tasks : tasks[t].pc = "waitOpen"

\* ---------------------------------------------------------------------------
\* connect in flight at disposal

\* the connect() that ran connect sequence t settles
ConnectSettles(t) ==
  RunTask(t) /\ tasks[t].type = "connect" /\ tasks[t].pc \in {"ret", "thr"}

\* C25 as stated: a connect() that was in flight when disposeAsync() was
\* called rejects with the connector's liveness error and registers no
\* virtual connection, so that activeVirtualConnections stays 0.
C25_AsStated ==
  [][\A t \in Tasks :
       (ConnectSettles(t) /\ wasDisposed) =>
         /\ outcome' = "DisposedError"
         /\ UNCHANGED <<vcs, handles>>]_vars

\* ---------------------------------------------------------------------------
\* reconnection

\* C26 as stated: on the mock connector with reconnectAttempts >= 1 and a live
\* virtual connection, simulateConnectionFailure() publishes the error on the
\* error stream and moves the state to Reconnecting, with every virtual
\* connection still live.
C26_AsStated ==
  [][(MockSimulateError /\ reconnectAttempts >= 1 /\ vcs # {} /\ ~wasDisposed
        /\ state = "Connected") =>
       /\ errTick' # errTick
       /\ state' = "Reconnecting"
       /\ UNCHANGED <<vcs, handles>>]_vars

\* a step of the backoff retry: its timer callback or a continuation of the
\* connect sequence it started
RetryStep == RetryFire \/ \E t \in Tasks : tasks[t].type = "retry" /\ RunTask(t)

\* C27 as stated: between a failure that entered Reconnecting and the
\* Connected or Disconnected the backoff retry produces, the retry does not
\* put Connecting on the state stream: the states go Reconnecting ->
\* Connected or Reconnecting -> Disconnected.
C27_AsStated ==
  [][(state = "Reconnecting" /\ RetryStep) => ~ShowsConnecting]_vars

\* ---------------------------------------------------------------------------
\* creation of transports

\* the step is run by connect(): the call itself or the continuation of its
\* connect sequence that follows a wait for a disconnect
ByConnect ==
  Connect \/ \E t \in Tasks : tasks[t].type = "connect" /\ RunTask(t)

BySend ==
  \/ \E h \in Handles : handles[h] = "live" /\ Send(h)
  \/ \E t \in Tasks : tasks[t].type = "send" /\ RunTask(t)

\* C28 as stated: a transport is created only by a connect() made while no
\* virtual connection is live (the count is going from 0 to 1) or while the
\* state is Disconnected; none exists at construction and no other path
\* creates one.
C28_AsStated ==
  [][OpensTransport =>
       (ByConnect /\ (ActiveVirtualConnections = 0 \/ state = "Disconnected"))]_vars

\* C28: none exists at construction, and a transport is created only inside a
\* connect sequence, by a step that leaves the state Connecting: a sequence
\* started by connect(), by send() on a live virtual connection, or by the
\* backoff retry while a virtual connection is registered and the connector
\* is not disposed; each such step creates one transport, makes it the
\* current one, and runs while the state is not Connected and no disconnect
\* is in flight.
C28_TransportCreation ==
  /\ \A s \in Socks : socks[s].rs # 0
  /\ [][OpensTransport =>
          /\ ByConnect \/ BySend \/ RetryStep
          /\ RetryFire => (vcs # {} /\ ~wasDisposed)
          /\ Cardinality(NewTransports) = 1
          /\ cur' \in NewTransports
          /\ state # "Connected" /\ state' = "Connecting"
          /\ ~DisconnectInFlight
          /\ ~wasDisposed]_vars

C28_Witness ==
  \E t \in Tasks :
    /\ tasks[t].type \in {"send", "retry"} /\ tasks[t].pc = "waitOpen"
    /\ socks[tasks[t].sock].rs = 0 /\ cur = tasks[t].sock
    /\ vcs # {}

\* ---------------------------------------------------------------------------
\* repeated dispose

\* C29: dispose() on a virtual connection is idempotent: a second or later
\* dispose() of the same handle changes nothing: activeVirtualConnections,
\* the registered handles, the completion of every message stream, the idle
\* timer, the state and the transport are as before.
C29_DisposeIdempotent ==
  [][\A h \in Handles :
       DisposeAgain(h) =>
         /\ Cardinality(vcs') = Cardinality(vcs)
         /\ UNCHANGED <<vcs, handles, completed, idleTimer, state, emitted, socks,
                        cur, tasks, mq, disconnecting>>]_vars

C29_Witness ==
  /\ 1 \in redisposed /\ handles[1] = "disposed" /\ handles[2] = "live"
  /\ vcs = {2} /\ completed = {1} /\ ~idleTimer /\ state = "Connected"

\* ---------------------------------------------------------------------------
\* the idle timer

\* C30: when the idle timer fires, the transport is torn down (state
\* Disconnecting, the teardown in flight, the current socket closing or
\* closed) exactly when no virtual connection is live and disposeAsync() has
\* not been called; otherwise the firing changes neither the state nor the
\* transport.
C30_AsStated ==
  [][IdleFire =>
       IF vcs = {} /\ ~wasDisposed
       THEN /\ state' = "Disconnecting"
            /\ emitted'[2] = "Disconnecting"
            /\ disconnecting' # "none"
            /\ cur # 0 => socks'[cur].rs \in {2, 3}
       ELSE UNCHANGED <<state, emitted, socks, cur, disconnecting>>]_vars

\* ---------------------------------------------------------------------------
\* arming of the idle timer

\* a step removes the last registered virtual connection
LastDisposed == vcs # {} /\ vcs' = {}

\* C31: an idle timer is armed only by a step that brings the live count to
\* zero while the state is Connecting, Reconnecting or Connected; when the
\* count reaches zero in any other state no timer is armed, also when the
\* disposal cascade of disposeAsync() disposes the last virtual connections.
C31_IdleTimerArming ==
  /\ [][(~idleTimer /\ idleTimer') =>
          /\ LastDisposed
          /\ state \in {"Connecting", "Reconnecting", "Connected"}
          /\ (\E h \in Handles : DisposeVc(h))]_vars
  /\ [][(LastDisposed /\ state \in {"Connecting", "Reconnecting", "Connected"}) =>
          idleTimer']_vars
  /\ [][(LastDisposed /\ state \in {"Disconnected", "Disconnecting", "Disposing",
                                     "Disposed"}) =>
          idleTimer' = idleTimer]_vars
  /\ [][DisposeCascade => idleTimer' = idleTimer]_vars

C31_Witness ==
  /\ state = "Disposed" /\ kind = "mock"
  /\ liveAtDispose # {} /\ vcs = {} /\ ~idleTimer
  /\ \A h \in liveAtDispose : handles[h] = "disposed"

\* ---------------------------------------------------------------------------
\* the backoff retry and disposal

\* the callback of the backoff timer calls _connect
RetryConnects ==
  \E t \in Tasks : tasks[t].type = "free" /\ tasks'[t].type = "retry"

\* C32: a backoff retry that fires starts a connect sequence only if a
\* virtual connection is live and disposeAsync() has not been called;
\* otherwise it changes neither the state, the transport, the attempt counter
\* nor any pending call.
C32_RetryChecksLiveness ==
  [][RetryFire =>
       IF vcs # {} /\ ~wasDisposed
       THEN RetryConnects
       ELSE /\ ~RetryConnects
            /\ UNCHANGED <<state, emitted, socks, cur, currentAttempt, disconnecting,
                           tasks, mq, dq, handles, vcs, idleTimer>>]_vars

C32_Witness ==
  /\ state = "Reconnecting" /\ retryTimers = 0 /\ currentAttempt = 1
  /\ \A t \in Tasks : tasks[t].type # "retry"
  /\ wasDisposed \/ vcs = {}

\* ---------------------------------------------------------------------------
\* the order of disposal

\* a step other than a caller's own dispose() disposes handle h or completes
\* its message stream
EndedByConnector(h) ==
  /\ handles[h] = "live"
  /\ handles'[h] = "disposed" \/ (h \notin completed /\ h \in completed')
  /\ ~(\E g \in Handles : DisposeVc(g))

\* C33 as stated: disposeAsync() completes the connector's message and error
\* streams, then runs the disconnect to completion, then sets the state to
\* Disposing, then disposes every live virtual connection, then sets the
\* state to Disposed and completes the state stream, and resolves; no
\* virtual connection is disposed or has its message stream completed by the
\* disposal before the state is Disposing.
C33_AsStated ==
  /\ [][DisposeAsync => msgDone' /\ errDone' /\ ~stateDone']_vars
  /\ [][DisposeMark =>
          /\ msgDone /\ errDone /\ disconnecting = "none"
          /\ emitted' = <<"Disconnected", "Disposing">>]_vars
  /\ [][DisposeCascade =>
          /\ state = "Disposing" /\ state' = "Disposed" /\ stateDone'
          /\ vcs' = {} /\ \A h \in vcs : handles'[h] = "disposed"]_vars
  /\ [][DisposeResolves => DisposeCascade]_vars
  /\ [][\A h \in Handles : EndedByConnector(h) => state = "Disposing"]_vars

\* ---------------------------------------------------------------------------
\* one disconnect at a time

\* calls of _ensureDisconnect whose promise is pending
DisconnectsInFlight ==
  (IF disconnecting \in {"poll", "event"} THEN 1 ELSE 0)
    + (IF disp = "waitNode" THEN 1 ELSE 0)

\* the idle timer or disposeAsync() asks for a disconnect
DisconnectRequested == (IdleFire /\ IdleWanted) \/ DisposeAsync

\* C34 as stated: at most one disconnect is in flight at any time; a
\* disconnect requested by the idle timer or by disposeAsync() while another
\* is in flight closes nothing, emits no Disconnecting and starts no second
\* disconnect; the in-flight marker is empty once the disconnect has finished.
C34_AsStated ==
  /\ [][DisconnectsInFlight' <= 1]_vars
  /\ [][(disconnecting # "none" /\ DisconnectRequested) =>
          UNCHANGED <<socks, cur, state, emitted, disconnecting>>]_vars
  /\ [][DisconnectDone => disconnecting' = "none"]_vars
  /\ [][(disconnecting # "none" /\ DisposeMark) => FALSE]_vars

\* ---------------------------------------------------------------------------
\* connecting again after a failure

\* the transport has failed or closed and nothing is tearing it down
TransportLost ==
  /\ state = "Disconnected" /\ ~wasDisposed /\ disconnecting = "none"
  /\ cur # 0 /\ socks[cur].rs = 3

\* connect sequence t learns that its transport has opened
OpenReachesConnect(t) ==
  RunTask(t) /\ tasks[t].pc = "res" /\ tasks[t].r = "Connected"

\* connect() call t returns
ConnectReturns(t) ==
  RunTask(t) /\ tasks[t].type = "connect" /\ tasks[t].pc = "ret"

CallerConnects ==
  ~wasDisposed /\ (Connect \/ \E h \in Handles : handles[h] = "live" /\ Send(h))

\* C36: a send() or connect() issued while the state is Reconnecting starts
\* a connect sequence in the same step, whatever backoff delay is pending;
\* if a connect sequence of a caller fails, the state becomes Disconnected
\* and the call rejects with the connect failure, and neither step cancels
\* or fires a pending backoff retry.
C36_CallDuringBackoff ==
  /\ [][(state = "Reconnecting" /\ CallerConnects) =>
          /\ state' = "Connecting"
          /\ \E t \in Tasks : /\ tasks[t].type = "free"
                              /\ tasks'[t].type \in {"connect", "send"}
                              /\ tasks'[t].pc \in {"waitOpen", "poll", "res"}
          /\ UNCHANGED <<retryTimers, currentAttempt>>]_vars
  /\ [][\A t \in Tasks :
          (ConnectFails(t) /\ tasks[t].type \in {"connect", "send"}) =>
            /\ state' = "Disconnected"
            /\ tasks'[t].pc = "thr" /\ tasks'[t].r = "ConnectError"
            /\ UNCHANGED <<retryTimers, currentAttempt>>]_vars
  /\ [][\A t \in Tasks :
          FailureReachesCaller(t) =>
            outcome' = "ConnectError" /\ UNCHANGED <<state, retryTimers, handles, vcs>>]_vars

C36_Witness ==
  /\ state = "Disconnected" /\ outcome = "ConnectError" /\ ~wasDisposed
  /\ retryTimers = 2 /\ reconnectAttempts = 2 /\ currentAttempt = 0 /\ gaveUp
  /\ vcs = {1} /\ handles[2] = "unused"
  /\ \A t \in Tasks : tasks[t].type = "free"

\* ---------------------------------------------------------------------------
\* a transport without consumers

\* a connect() call is in flight and will register a handle when it returns
ConnectPending == \E t \in Tasks : tasks[t].type = "connect"

\* C37 as stated: on a connector that is not disposed, a state Connected with
\* no live virtual connection always has an idle timer pending, a disconnect
\* in flight, or a connect() about to register a handle, so that the
\* transport is eventually torn down when nobody calls connect() or send().
C37_AsStated ==
  (state = "Connected" /\ vcs = {} /\ ~wasDisposed) =>
    (idleTimer \/ disconnecting # "none" \/ ConnectPending)

\* ---------------------------------------------------------------------------
\* a disconnect during a connect sequence

\* a connect sequence has emitted Connecting and awaits _ensureConnection
AwaitingTransport == \E t \in Tasks : tasks[t].pc \in {"waitOpen", "poll"}

\* a call of _ensureDisconnect closes the transport and waits for it
DisconnectStarts ==
  \/ disconnecting = "none" /\ disconnecting' \in {"poll", "event"}
  \/ disp # "waitNode" /\ disp' = "waitNode"

\* C38 as stated: while a connect sequence is awaiting the transport neither
\* the idle timer nor disposeAsync() starts a disconnect or moves the state
\* to Disconnecting, and a connect sequence that completes successfully
\* leaves the state Connected.
C38_AsStated ==
  /\ [][(AwaitingTransport /\ (IdleFire \/ DisposeAsync)) =>
          ~DisconnectStarts /\ state' # "Disconnecting"]_vars
  /\ [][\A t \in Tasks : OpenReachesConnect(t) => state' = "Connected"]_vars

\* ---------------------------------------------------------------------------
\* the settling of connect()

\* the connector without automatic reconnection, with callers that connect
\* and dispose only
NextLive ==
  \/ Connect
  \/ \E h \in Handles : DisposeVc(h)
  \/ DisposeAsync
  \/ DisconnectDone
  \/ DisposeMark
  \/ DisposeCascade
  \/ \E t \in Tasks : RunTask(t)
  \/ IdleFire
  \/ \E s \in Socks : NodeOpen(s)
  \/ \E s \in Socks : NodeError(s)
  \/ NodeCloseAfterError
  \/ \E s \in Socks, clean \in BOOLEAN : NodeClose(s, clean)
  \/ \E which \in {"stale", "d", "disp"} : NodeForceTimer(which)
  \/ \E t \in Tasks : MockAutoOpen(t)
  \/ \E t \in Tasks : MockPollOpen(t)
  \/ \E s \in Socks : MockCloseTimer(s)
  \/ MockPollClosed

\* what the event loop and the transport guarantee: a queued continuation
\* runs, a timer that is due fires, an open attempt succeeds or fails and a
\* close completes; callers are under no obligation
FairLive ==
  /\ WF_vars(DisconnectDone)
  /\ WF_vars(DisposeMark)
  /\ WF_vars(DisposeCascade)
  /\ WF_vars(NodeCloseAfterError)
  /\ WF_vars(IdleFire)
  /\ WF_vars(MockPollClosed)
  /\ \A t \in Tasks : WF_vars(RunTask(t)) /\ WF_vars(MockAutoOpen(t)) /\ WF_vars(MockPollOpen(t))
  /\ \A s \in Socks : /\ WF_vars(NodeOpen(s) \/ NodeError(s))
                      /\ WF_vars(\E clean \in BOOLEAN : NodeClose(s, clean))
                      /\ WF_vars(MockCloseTimer(s))
  /\ \A which \in {"stale", "d", "disp"} : WF_vars(NodeForceTimer(which))

SpecLive == InitMsg /\ [][NextLive]_vars /\ FairLive

\* C39 as stated: every connect() call eventually settles, with a handle or
\* with a rejection, when continuations run, timers fire, every open attempt
\* succeeds or fails and every close completes.
C39_AsStated ==
  \A t \in Tasks : (tasks[t].type = "connect") ~> (tasks[t].type # "connect")

\* ---------------------------------------------------------------------------
\* the state when connect() returns

\* this._virtualConnections.add(virtualConnection) in connect()
HandleRegistered == vcs' \ vcs # {}

\* C40 as stated: at the moment a handle returned by connect() is registered
\* in the live set, the state is Connected.
C40_AsStated == [][HandleRegistered => state' = "Connected"]_vars
====
